---- MODULE Spec2Model ----
(***************************************************************************)
(* Model of src/main.py (ChineseLearningApp): the vocabulary store filled  *)
(* by load_csv, the highlighter over the highlight_text widget, the        *)
(* sentence generator with its remote call and local fallback, and the     *)
(* tone quiz.                                                              *)
(*                                                                         *)
(* A Python str is a sequence of characters; each character is one TLA+    *)
(* string.  Chinese characters are written in pinyin ("xue", "xi",         *)
(* "guang", "hao", ...), the brackets U+3010/U+3011 as "LB"/"RB", the      *)
(* full-width colon U+FF1A as "colon", U+3002 as "juhao".                  *)
(***************************************************************************)
EXTENDS Integers, Sequences, FiniteSets, TLC

VARIABLES
    vocab_lists,          \* self.vocab_lists: sequence of VocabularyList
    text,                 \* content of the highlight_text widget (without Tk's final newline)
    tags,                 \* set of <<list name, position>>: characters carrying tag vocab_<name>
    generated_sentences,  \* self.generated_sentences
    quiz_sentence,        \* text of the quiz_sentence label
    current_quiz_word,    \* self.current_quiz_word (None or a str)
    current_quiz_tone,    \* self.current_quiz_tone (None or a str)
    quiz_feedback,        \* text of the quiz_feedback label
    event                 \* the handler that ran last and how it ended

vars == << vocab_lists, text, tags, generated_sentences, quiz_sentence,
           current_quiz_word, current_quiz_tone, quiz_feedback, event >>

storeVars == << vocab_lists >>
highlightVars == << text, tags >>
sentenceVars == << generated_sentences >>
quizVars == << quiz_sentence, current_quiz_word, current_quiz_tone, quiz_feedback >>

(***************************************************************************)
(* Bounds of the model.                                                    *)
(***************************************************************************)
MaxLists == 2      \* lists the store may hold
MaxPick == 2       \* files selected in one file dialog
MaxText == 3       \* characters in the highlight_text widget
MaxCount == 1      \* value of the sentence_count spinbox

\* Python's None, kept apart from every str (no character is called "None")
None == << "None" >>

(***************************************************************************)
(* Python str operations.                                                  *)
(***************************************************************************)
\* w occurs in s at position p (1-based)
OccursAt(s, w, p) ==
    /\ p >= 1
    /\ p + Len(w) - 1 <= Len(s)
    /\ SubSeq(s, p, p + Len(w) - 1) = w

\* str.find / Text.search forwards: the first position >= from where w occurs, 0 if none
Find(s, w, from) ==
    LET hits == { p \in from..Len(s) : OccursAt(s, w, p) }
    IN  IF hits = {} THEN 0 ELSE CHOOSE p \in hits : \A q \in hits : p <= q

Contains(s, w) == Find(s, w, 1) # 0

\* number of positions at which w occurs in s
Occurrences(s, w) == Cardinality({ p \in 1..Len(s) : OccursAt(s, w, p) })

\* s.replace(w, r, 1)
Replace1(s, w, r) ==
    LET p == Find(s, w, 1)
    IN  IF p = 0 THEN s
        ELSE SubSeq(s, 1, p - 1) \o r \o SubSeq(s, p + Len(w), Len(s))

\* s.strip()
Strip(s) ==
    LET keep == { p \in 1..Len(s) : s[p] # " " }
    IN  IF keep = {} THEN << >>
        ELSE LET lo == CHOOSE p \in keep : \A q \in keep : p <= q
                 hi == CHOOSE p \in keep : \A q \in keep : p >= q
             IN  SubSeq(s, lo, hi)

\* sep.join(words)
RECURSIVE Join(_, _)
Join(words, sep) ==
    IF Len(words) = 0 THEN << >>
    ELSE IF Len(words) = 1 THEN words[1]
    ELSE words[1] \o sep \o Join(Tail(words), sep)

\* field.lower() on the header names the files below use
Lower(name) ==
    CASE name = "Word" -> "word"
      [] name = "Vocab" -> "vocab"
      [] name = "Tone" -> "tone"
      [] OTHER -> name

(***************************************************************************)
(* Program constants.                                                      *)
(***************************************************************************)
colors == << "#2e7d32", "#1565c0", "#6a1b9a", "#ef6c00", "#ad1457" >>

GrammarForm1 ==
    << "S", "+", "bu", "jin", " ", "+", " ", "V", "1", " ", "+", " ", "O1", ",", " ", "ye", "/", "hai", "/", "er", "qie", " ", "+", " ", "V", "2", " ", "+", " ", "O2" >>
GrammarForm2 ==
    << "ji", "shi", "juhao", "juhao", "juhao", "ye" >>
GrammarForm3 ==
    << "V", " ", "+", " ", "guang" >>
GrammarForm4 ==
    << "A", " ", "zhan", " ", "B", " ", "+", " ", "shu", "liang" >>
GrammarForm5 ==
    << "V", " ", "+", " ", "cheng", " ", "+", " ", "R", "e", "s", "u", "l", "t" >>
GrammarForm6 ==
    << "hao", "bu", "rong", "yi", " ", "+", " ", "cai", " ", "+", " ", "R", "e", "s", "u", "l", "t" >>
GrammarForm7 ==
    << "bi", "qi", "lai", " ", "B", " ", "+", " ", "(", "geng", " ", "/", " ", "bi", "jiao", ")", " ", "+", " ", "A", "d", "j", "e", "c", "t", "i", "v", "e", " ", "/", " ", "P", "h", "r", "a", "s", "e" >>
GrammarForm8 ==
    << "gen", " ", "B", " ", "bi", "qi", "lai", " ", "+", " ", "(", "geng", " ", "/", " ", "bi", "jiao", ")", " ", "+", " ", "A", "d", "j", "e", "c", "t", "i", "v", "e", " ", "/", " ", "P", "h", "r", "a", "s", "e" >>

GRAMMAR_FORMS ==
    { GrammarForm1, GrammarForm2, GrammarForm3, GrammarForm4,
      GrammarForm5, GrammarForm6, GrammarForm7, GrammarForm8 }

\* values of the tone_dropdown combobox (readonly)
ToneChoices == { << "1" >>, << "2" >>, << "3" >>, << "4" >>, << "5" >> }

(***************************************************************************)
(* The CSV files the user can select.  A file is its stem, its header      *)
(* (<< >> for a file with no header row) and its data rows, each row the   *)
(* values under the header's columns.                                      *)
(***************************************************************************)
FileA ==
    [ stem |-> "A", fieldnames |-> << "word", "tone" >>,
      rows |-> << << << "xue", "xi" >>, << "3" >> >>,
                  << << " ", "xi" >>, << "4", " " >> >>,
                  << << "xi" >>, << >> >> >> ]
FileB ==
    [ stem |-> "B", fieldnames |-> << "Vocab", "tones" >>,
      rows |-> << << << "xi" >> >>,
                  << << >>, << "2" >> >> >> ]
FileR ==
    [ stem |-> "R", fieldnames |-> << "word", "tone" >>,
      rows |-> << << << " " >>, << "1" >> >> >> ]
FileE ==
    [ stem |-> "E", fieldnames |-> << >>, rows |-> << >> ]

Files == { FileA, FileB, FileR, FileE }

(***************************************************************************)
(* Reading a vocabulary file.                                              *)
(***************************************************************************)
\* _match_field: the dict {field.lower(): field} keeps the last field of each
\* lowered name; the first candidate found in it wins, else fieldnames[0]
_match_field(fieldnames, candidates) ==
    LET lowered(c) ==
            LET at == { i \in 1..Len(fieldnames) : Lower(fieldnames[i]) = c }
            IN  IF at = {} THEN 0 ELSE CHOOSE i \in at : \A j \in at : i >= j
        found == { k \in 1..Len(candidates) : lowered(candidates[k]) # 0 }
    IN  IF found = {} THEN fieldnames[1]
        ELSE fieldnames[lowered(candidates[CHOOSE k \in found : \A j \in found : k <= j])]

\* (row.get(field) or ""): the value under the (last) column named field,
\* "" when the row is too short to have one
RowGet(fieldnames, row, name) ==
    LET at == { i \in 1..Len(fieldnames) : fieldnames[i] = name }
        i == CHOOSE i \in at : \A j \in at : i >= j
    IN  IF at = {} \/ i > Len(row) THEN << >> ELSE row[i]

\* the loop over the rows: [words, tones] after the rows k..Len(rows)
RECURSIVE ReadRows(_, _, _, _, _, _)
ReadRows(file, word_field, tone_field, k, words, tones) ==
    IF k > Len(file.rows) THEN [ words |-> words, tones |-> tones ]
    ELSE
        LET row == file.rows[k]
            word == Strip(RowGet(file.fieldnames, row, word_field))
            tone == Strip(RowGet(file.fieldnames, row, tone_field))
        IN  IF word = << >>
            THEN ReadRows(file, word_field, tone_field, k + 1, words, tones)
            ELSE IF tone_field # "" /\ tone # << >>
            THEN ReadRows(file, word_field, tone_field, k + 1, Append(words, word),
                          [ w \in (DOMAIN tones) \cup {word} |->
                                IF w = word THEN tone ELSE tones[w] ])
            ELSE ReadRows(file, word_field, tone_field, k + 1, Append(words, word), tones)

NoTones == [ w \in {} |-> << >> ]

\* _read_vocab_file(path, index): [ok |-> FALSE] when it raises, else the list.
\* index is 0-based as enumerate() gives it.
_read_vocab_file(file, index) ==
    IF file.fieldnames = << >> THEN [ ok |-> FALSE ]
    ELSE
        LET word_field == _match_field(file.fieldnames, << "word", "vocab", "character" >>)
            tone_field == _match_field(file.fieldnames, << "tone", "tones" >>)
            read == ReadRows(file, word_field, tone_field, 1, << >>, NoTones)
        IN  IF read.words = << >> THEN [ ok |-> FALSE ]
            ELSE [ ok |-> TRUE,
                   list |-> [ name |-> file.stem, words |-> read.words,
                              tones |-> read.tones,
                              color |-> colors[(index % Len(colors)) + 1] ] ]

\* _read_vocab_file on every file at every index of a selection
ReadResult ==
    [ file \in Files, index \in 0..(MaxPick - 1) |-> _read_vocab_file(file, index) ]

\* the for loop of load_csv from the file at (0-based) index on:
\* the store after it, and the number of files rejected
RECURSIVE LoadFiles(_, _, _, _)
LoadFiles(filenames, index, lists, errors) ==
    IF index >= Len(filenames) THEN [ lists |-> lists, errors |-> errors ]
    ELSE
        LET r == ReadResult[filenames[index + 1], index]
        IN  IF r.ok
            THEN LoadFiles(filenames, index + 1, Append(lists, r.list), errors)
            ELSE LoadFiles(filenames, index + 1, lists, errors + 1)

\* what the file dialog can return: the files selected, each once
Selections ==
    { f \in UNION { [1..n -> Files] : n \in 1..MaxPick } :
        \A i, j \in DOMAIN f : i # j => f[i] # f[j] }

Ev(op, outcome, arg) == [ op |-> op, outcome |-> outcome, arg |-> arg ]

load_csv_cancel ==
    /\ event' = Ev("load_csv", "cancelled", << >>)
    /\ UNCHANGED << storeVars, highlightVars, sentenceVars, quizVars >>

\* a load that starts from an empty store instead of appending to the current one
load_csv_fresh ==
    \E filenames \in Selections :
        LET r == LoadFiles(filenames, 0, << >>, 0)
        IN  /\ Len(r.lists) <= MaxLists
            /\ vocab_lists' = r.lists
            /\ event' = Ev("load_csv", IF r.errors > 0 THEN "CSV Error" ELSE "loaded", << >>)
            /\ UNCHANGED << highlightVars, sentenceVars, quizVars >>

load_csv_files ==
    \E filenames \in Selections :
        LET r == LoadFiles(filenames, 0, vocab_lists, 0)
        IN  /\ Len(r.lists) <= MaxLists
            /\ vocab_lists' = r.lists
            /\ event' = Ev("load_csv", IF r.errors > 0 THEN "CSV Error" ELSE "loaded", << >>)
            /\ UNCHANGED << highlightVars, sentenceVars, quizVars >>

load_csv == load_csv_cancel \/ load_csv_files

_all_words ==
    LET RECURSIVE Concat(_)
        Concat(k) == IF k > Len(vocab_lists) THEN << >>
                     ELSE vocab_lists[k].words \o Concat(k + 1)
    IN  Concat(1)

Init ==
    /\ vocab_lists = << >>
    /\ text = << >>
    /\ tags = {}
    /\ generated_sentences = << >>
    /\ quiz_sentence = << >>
    /\ current_quiz_word = None
    /\ current_quiz_tone = None
    /\ quiz_feedback = << >>
    /\ event = Ev("init", "none", << >>)

(***************************************************************************)
(* The highlight_text widget.  Tk keeps a tag as a property of characters: *)
(* tags holds <<tag name, position>> for each character carrying the tag.  *)
(* A tag name is a sequence of strings: "vocab_A" is << "vocab_", "A" >>.  *)
(***************************************************************************)
TextAlphabet == { "xue", "xi", "hao" }

TagOf(name) == << "vocab_", name >>

\* typing a character at position p: characters from p on move right, and the
\* new character takes the tags that both its neighbours carry
insert_char ==
    /\ Len(text) < MaxText
    /\ \E c \in TextAlphabet, p \in 1..(Len(text) + 1) :
        /\ text' = SubSeq(text, 1, p - 1) \o << c >> \o SubSeq(text, p, Len(text))
        /\ tags' = { t \in tags : t[2] < p }
                   \cup { << t[1], t[2] + 1 >> : t \in { u \in tags : u[2] >= p } }
                   \cup { << t[1], p >> : t \in { u \in tags :
                                u[2] = p /\ << u[1], p - 1 >> \in tags } }
    /\ event' = Ev("edit", "insert", << >>)
    /\ UNCHANGED << storeVars, sentenceVars, quizVars >>

\* deleting the character at position p: it goes with its tags, the rest move left
delete_char ==
    /\ \E p \in 1..Len(text) :
        /\ text' = SubSeq(text, 1, p - 1) \o SubSeq(text, p + 1, Len(text))
        /\ tags' = { t \in tags : t[2] < p }
                   \cup { << t[1], t[2] - 1 >> : t \in { u \in tags : u[2] > p } }
    /\ event' = Ev("edit", "delete", << >>)
    /\ UNCHANGED << storeVars, sentenceVars, quizVars >>

\* Text.tag_delete(name): no character carries the tag any more
tag_delete(tagset, name) == { t \in tagset : t[1] # name }

\* Text.tag_add(tag, start, end) with end = start + n chars
tag_add(tagset, tag, start, n) ==
    tagset \cup { << tag, q >> : q \in start..(start + n - 1) }

\* sorted(words, key=len, reverse=True): by descending length, equal lengths
\* in their original order
SortedByLen(words) ==
    LET longest == IF Len(words) = 0 THEN 0
                   ELSE CHOOSE n \in { Len(words[i]) : i \in 1..Len(words) } :
                            \A i \in 1..Len(words) : Len(words[i]) <= n
        RECURSIVE From(_)
        From(n) == IF n < 0 THEN << >>
                   ELSE LET HasLen(w) == Len(w) = n
                        IN  SelectSeq(words, HasLen) \o From(n - 1)
    IN  From(longest)

\* the while loop for one word: search from start, tag the match, go on at its end
RECURSIVE ScanWord(_, _, _, _, _)
ScanWord(txt, tag, word, start, tagset) ==
    LET at == Find(txt, word, start)
    IN  IF at = 0 THEN tagset
        ELSE ScanWord(txt, tag, word, at + Len(word),
                      tag_add(tagset, tag, at, Len(word)))

\* the loop over the words of one list, from the k-th of the sorted words on
RECURSIVE ScanWords(_, _, _, _, _)
ScanWords(txt, tag, sorted, k, tagset) ==
    IF k > Len(sorted) THEN tagset
    ELSE ScanWords(txt, tag, sorted, k + 1, ScanWord(txt, tag, sorted[k], 1, tagset))

\* the loop over the lists, from the k-th on
RECURSIVE ScanLists(_, _, _, _)
ScanLists(txt, lists, k, tagset) ==
    IF k > Len(lists) THEN tagset
    ELSE ScanLists(txt, lists, k + 1,
                   ScanWords(txt, TagOf(lists[k].name),
                             SortedByLen(lists[k].words), 1, tagset))

\* the tag highlight_vocab deletes before it adds the new spans
ClearedTag == << "vocab" >>

highlight_vocab ==
    /\ tags' = ScanLists(text, vocab_lists, 1, tag_delete(tags, ClearedTag))
    /\ event' = Ev("highlight_vocab", "done", << >>)
    /\ UNCHANGED << text, storeVars, sentenceVars, quizVars >>

NextHighlight == load_csv \/ insert_char \/ delete_char \/ highlight_vocab

SpecHighlight == Init /\ [][NextHighlight]_vars

(***************************************************************************)
(* Sentence generation.                                                    *)
(***************************************************************************)
Min(a, b) == IF a < b THEN a ELSE b

\* the word lists of the files that load
LoadableWords ==
    { ReadResult[file, 0].list.words : file \in { f \in Files : ReadResult[f, 0].ok } }

\* every pool _all_words can return within the bounds
RECURSIVE PoolsOf(_)
PoolsOf(n) ==
    IF n = 0 THEN { << >> }
    ELSE PoolsOf(n - 1) \cup { pool \o words : pool \in PoolsOf(n - 1), words \in LoadableWords }

Pools == PoolsOf(MaxLists)

\* [word for word in vocab_words if word != target_word]
Remaining(vocab_words, target_word) ==
    LET Other(word) == word # target_word
    IN  SelectSeq(vocab_words, Other)

\* every population a caller samples from: a pool, or a pool without one word
Populations ==
    Pools \cup { Remaining(pool, pool[p]) : << pool, p >> \in
                    UNION { { << q, i >> : i \in 1..Len(q) } : q \in Pools } }

\* the ways to pick k distinct positions out of n, in any order
Picks(n, k) == { g \in [1..k -> 1..n] : \A i, j \in 1..k : i # j => g[i] # g[j] }

\* random.sample(population, k) for k up to 3 (the most any caller draws),
\* tabulated over the populations: the words at k distinct positions, in any order
SampleTable ==
    [ population \in Populations, k \in 0..3 |->
        { [ i \in 1..k |-> population[f[i]] ] : f \in Picks(Len(population), k) } ]

Sample(population, k) == SampleTable[population, k]

Colon == << "colon" >>
Space == << " " >>

\* the string _fallback_sentence builds from the words it drew
FallbackText(grammar, words) == grammar \o Colon \o Join(words, Space)

\* _fallback_sentence(grammar, vocab_words): every [sentence, words drawn] it can return
_fallback_sentence(grammar, vocab_words) ==
    { [ sentence |-> FallbackText(grammar, words), words |-> words ] :
        words \in Sample(vocab_words, Min(3, Len(vocab_words))) }

\* How the remote request can end: no credential in the environment (no request
\* is made), a response with a status other than 200, a 200 response, or
\* requests.post / response.json() / the indexing of the body raising.
RequestOutcomes == { "no_key", "status", "ok", "raise" }

\* The text a 200 response can carry for a request naming these words
Replies(words) ==
    { Space \o Join(words, << >>) \o Space, << "hao" >>, Space }

\* _generate_sentence_with_chatgpt(grammar, vocab_words) under one outcome of the
\* request: the set of [kind, sentence, words] results; kind "raise" has no
\* sentence, and words are the words the fallback drew
_generate_sentence_with_chatgpt(grammar, vocab_words, outcome) ==
    IF outcome = "no_key" \/ outcome = "status"
    THEN { [ kind |-> "fallback", grammar |-> grammar,
             sentence |-> r.sentence, words |-> r.words ] :
             r \in _fallback_sentence(grammar, vocab_words) }
    ELSE IF outcome = "raise"
    THEN { [ kind |-> "raise", grammar |-> << >>, sentence |-> << >>, words |-> << >> ] }
    ELSE UNION { { [ kind |-> "reply", grammar |-> << >>,
                     sentence |-> Strip(reply), words |-> << >> ] :
                     reply \in Replies(words) } :
                   words \in Sample(vocab_words, Min(3, Len(vocab_words))) }

generate_sentences_missing ==
    /\ _all_words = << >>
    /\ event' = Ev("generate_sentences", "Missing Vocabulary", << >>)
    /\ UNCHANGED << storeVars, highlightVars, sentenceVars, quizVars >>

\* one pass of the loop body: the results of sentence_count calls; the batch is
\* stored only if no call raised
generate_sentences_run ==
    /\ _all_words # << >>
    /\ \E count \in 0..MaxCount :
         LET sentence_count == IF count < 1 THEN 1 ELSE count
         IN  \E batch \in [ 1..sentence_count ->
                             UNION { _generate_sentence_with_chatgpt(grammar, _all_words, outcome) :
                                       grammar \in GRAMMAR_FORMS, outcome \in RequestOutcomes } ] :
               IF \E i \in 1..sentence_count : batch[i].kind = "raise"
               THEN /\ event' = Ev("generate_sentences", "raised", << >>)
                    /\ UNCHANGED sentenceVars
               ELSE /\ generated_sentences' = [ i \in 1..sentence_count |-> batch[i].sentence ]
                    /\ event' = Ev("generate_sentences", "stored", batch)
    /\ UNCHANGED << storeVars, highlightVars, quizVars >>

generate_sentences == generate_sentences_missing \/ generate_sentences_run

NextSentences == load_csv \/ generate_sentences

SpecSentences == Init /\ [][NextSentences]_vars

(***************************************************************************)
(* The tone quiz.                                                          *)
(***************************************************************************)
LB == << "LB" >>
RB == << "RB" >>

\* the (word, tone) pairs new_quiz collects from the tones of every list
tone_entries ==
    UNION { { << word, vocab_lists[k].tones[word] >> : word \in DOMAIN vocab_lists[k].tones } :
              k \in 1..Len(vocab_lists) }

\* _generate_quiz_sentence(target_word, vocab_words) under one outcome of the
\* request: the set of [kind, sentence] results; kind "raise" has no sentence
_generate_quiz_sentence(target_word, vocab_words, outcome) ==
    IF outcome = "no_key" \/ outcome = "status"
    THEN { [ kind |-> "sentence", sentence |-> r.sentence ] :
             r \in UNION { _fallback_sentence(grammar, vocab_words) : grammar \in GRAMMAR_FORMS } }
    ELSE IF outcome = "raise"
    THEN { [ kind |-> "raise", sentence |-> << >> ] }
    ELSE LET remaining == Remaining(vocab_words, target_word)
         IN  UNION { { [ kind |-> "sentence", sentence |-> Strip(reply) ] :
                         reply \in Replies(<< target_word >> \o more) } :
                       more \in Sample(remaining, Min(2, Len(remaining))) }

\* the words a quiz can target: the words of the files that load
QuizTargets == UNION { { words[i] : i \in DOMAIN words } : words \in LoadableWords }

\* _generate_quiz_sentence under every outcome of the request, tabulated over
\* the pools and targets
QuizSentenceTable ==
    [ pool \in Pools, target \in QuizTargets |->
        UNION { _generate_quiz_sentence(target, pool, outcome) : outcome \in RequestOutcomes } ]

\* sentence.replace(quiz_word, "LB" + quiz_word + "RB", 1)
MarkTarget(sentence, quiz_word) == Replace1(sentence, quiz_word, LB \o quiz_word \o RB)

new_quiz_missing ==
    /\ tone_entries = {}
    /\ event' = Ev("new_quiz", "Missing Tones", << >>)
    /\ UNCHANGED << storeVars, highlightVars, sentenceVars, quizVars >>

new_quiz_run ==
    /\ tone_entries # {}
    /\ \E entry \in tone_entries :
         \E r \in QuizSentenceTable[_all_words, entry[1]] :
           IF r.kind = "raise"
           THEN /\ event' = Ev("new_quiz", "raised", << >>)
                /\ UNCHANGED quizVars
           ELSE /\ quiz_sentence' = MarkTarget(r.sentence, entry[1])
                /\ current_quiz_word' = entry[1]
                /\ current_quiz_tone' = entry[2]
                /\ quiz_feedback' = << >>
                /\ event' = Ev("new_quiz", "shown", << >>)
    /\ UNCHANGED << storeVars, highlightVars, sentenceVars >>

new_quiz == new_quiz_missing \/ new_quiz_run

\* a test for the empty string alone, which lets None through
FalsyOnlyEmpty(x) == x = << >>

\* Python's "not x" for an Optional[str]: None and "" are both false
Falsy(x) == x = None \/ x = << >>

NoActiveQuiz == Falsy(current_quiz_word) \/ Falsy(current_quiz_tone)

CorrectText == << "Correct!" >>
IncorrectText(word, tone) == << "Incorrect. " >> \o word \o << " has tone " >> \o tone \o << "." >>

\* grading with the comparison inverted
GradeInverted(chosen, word, tone) ==
    IF chosen # tone THEN CorrectText ELSE IncorrectText(word, tone)

\* the text check_answer puts on the quiz_feedback label
Grade(chosen, word, tone) ==
    IF chosen = tone THEN CorrectText ELSE IncorrectText(word, tone)

check_answer_idle ==
    /\ NoActiveQuiz
    /\ event' = Ev("check_answer", "No Quiz", << >>)
    /\ UNCHANGED << storeVars, highlightVars, sentenceVars, quizVars >>

check_answer_grade ==
    /\ ~NoActiveQuiz
    /\ \E chosen \in ToneChoices :
         /\ quiz_feedback' = Grade(chosen, current_quiz_word, current_quiz_tone)
         /\ event' = Ev("check_answer", "graded", chosen)
    /\ UNCHANGED << storeVars, highlightVars, sentenceVars,
                    quiz_sentence, current_quiz_word, current_quiz_tone >>

check_answer == check_answer_idle \/ check_answer_grade

\* The stores a quiz session can start from: the store as constructed, or as
\* one load_csv dialog leaves it
QuizStores ==
    { << >> } \cup { lists \in { LoadFiles(filenames, 0, << >>, 0).lists : filenames \in Selections } :
                      Len(lists) <= MaxLists }

InitQuiz ==
    /\ vocab_lists \in QuizStores
    /\ text = << >>
    /\ tags = {}
    /\ generated_sentences = << >>
    /\ quiz_sentence = << >>
    /\ current_quiz_word = None
    /\ current_quiz_tone = None
    /\ quiz_feedback = << >>
    /\ event = Ev("init", "none", << >>)

NextQuiz == new_quiz \/ check_answer

SpecQuiz == InitQuiz /\ [][NextQuiz]_vars

\* the quiz tab with vocabulary loaded at any moment, also while a quiz is live
NextQuizStore == load_csv \/ new_quiz \/ check_answer

SpecQuizStore == Init /\ [][NextQuizStore]_vars

Next ==
    \/ load_csv
    \/ insert_char
    \/ delete_char
    \/ highlight_vocab
    \/ generate_sentences
    \/ new_quiz
    \/ check_answer

Spec == Init /\ [][Next]_vars

(***************************************************************************)
(* Properties.                                                             *)
(***************************************************************************)
Ran(op) == event.op = op

\* tone_entries is not empty: some list has a (word, tone) pair
HasTones == tone_entries # {}

\* the character at position p carries the tag
Tagged(tag, p) == << tag, p >> \in tags

\* the ranges Text.tag_ranges(tag) reports: the maximal runs of tagged characters
Runs(tag) ==
    { run \in (1..Len(text)) \X (1..Len(text)) :
        /\ run[1] <= run[2]
        /\ \A q \in run[1]..run[2] : Tagged(tag, q)
        /\ ~Tagged(tag, run[1] - 1)
        /\ ~Tagged(tag, run[2] + 1) }

\* C1: after new_quiz has shown a sentence, whatever the sentence source did
\* (no credential, a non-200 response, a completion), the sentence holds the
\* target word between the brackets exactly once.
C1_BracketedOnce ==
    (Ran("new_quiz") /\ event.outcome = "shown")
        => Occurrences(quiz_sentence, LB \o current_quiz_word \o RB) = 1

\* C2: after highlight_vocab, where a word w of one list occurs in the text and
\* a word v of the same or another list is a proper substring of w, every
\* character of the occurrence carries w's list tag and no span of v's list
\* that spells v lies inside the occurrence.
C2_LongerWordWins ==
    Ran("highlight_vocab") =>
        \A i, j \in 1..Len(vocab_lists) :
          \A wi \in 1..Len(vocab_lists[i].words), vj \in 1..Len(vocab_lists[j].words) :
            LET w == vocab_lists[i].words[wi]
                v == vocab_lists[j].words[vj]
            IN  (Len(v) < Len(w) /\ Contains(w, v)) =>
                  \A p \in 1..Len(text) :
                    OccursAt(text, w, p) =>
                      /\ \A q \in p..(p + Len(w) - 1) : Tagged(TagOf(vocab_lists[i].name), q)
                      /\ ~\E run \in Runs(TagOf(vocab_lists[j].name)) :
                            /\ p <= run[1]
                            /\ run[2] <= p + Len(w) - 1
                            /\ SubSeq(text, run[1], run[2]) = v

\* C3: generate_sentences called with a non-empty pool always ends with a
\* batch stored, whatever the outcome of the external call.
C3_AlwaysStoresBatch ==
    (Ran("generate_sentences") /\ _all_words # << >>)
        => (event.outcome = "stored" /\ Len(generated_sentences) >= 1)

\* C4: check_answer run while no quiz is live (never started, or new_quiz only
\* ever aborted) signals "No Quiz", gives no verdict and leaves the quiz state
\* unset.
C4_NoActiveQuiz ==
    [][ (event'.op = "check_answer" /\ current_quiz_word = None /\ current_quiz_tone = None)
          => /\ event'.outcome = "No Quiz"
             /\ quiz_feedback' = << >>
             /\ current_quiz_word' = None
             /\ current_quiz_tone' = None
             /\ UNCHANGED quizVars ]_vars

C4_Witness ==
    /\ event = Ev("check_answer", "No Quiz", << >>)
    /\ vocab_lists # << >>
    /\ ~HasTones
    /\ current_quiz_word = None
    /\ quiz_feedback = << >>

\* C5: check_answer run with a live quiz grades: the feedback is Correct exactly
\* when the chosen tone equals the stored tone, else Incorrect with the stored
\* word and tone; the stored word, tone and sentence stay as they were.
C5_GradesSameQuestion ==
    [][ (event'.op = "check_answer" /\ current_quiz_word # None /\ current_quiz_tone # None)
          => /\ event'.outcome = "graded"
             /\ event'.arg \in ToneChoices
             /\ (quiz_feedback' = CorrectText) <=> (event'.arg = current_quiz_tone)
             /\ (event'.arg # current_quiz_tone)
                  => quiz_feedback' = IncorrectText(current_quiz_word, current_quiz_tone)
             /\ UNCHANGED << current_quiz_word, current_quiz_tone, quiz_sentence >> ]_vars

C5_Witness ==
    /\ event.op = "check_answer"
    /\ event.outcome = "graded"
    /\ event.arg # current_quiz_tone
    /\ quiz_feedback = IncorrectText(current_quiz_word, current_quiz_tone)

\* C6: new_quiz signals "Missing Tones" and leaves the quiz state unchanged
\* exactly when no list has a (word, tone) pair; otherwise it ends with a live
\* quiz, whether or not one was live before.
C6_NewQuizOutcome ==
    [][ event'.op = "new_quiz"
          => IF HasTones
             THEN event'.outcome # "Missing Tones" /\ ~NoActiveQuiz'
             ELSE event'.outcome = "Missing Tones" /\ UNCHANGED quizVars ]_vars

\* C7: after highlight_vocab every tagged character lies within the text and
\* belongs to a tagged occurrence of a word of a list with that tag: the spans
\* on the text are in bounds and spell words of their list.
C7_SpansSpellWords ==
    Ran("highlight_vocab") =>
        \A t \in tags :
            /\ t[2] \in 1..Len(text)
            /\ \E k \in 1..Len(vocab_lists) :
                 /\ TagOf(vocab_lists[k].name) = t[1]
                 /\ \E wi \in 1..Len(vocab_lists[k].words), p \in 1..Len(text) :
                      LET w == vocab_lists[k].words[wi]
                      IN  /\ OccursAt(text, w, p)
                          /\ p <= t[2]
                          /\ t[2] <= p + Len(w) - 1
                          /\ \A q \in p..(p + Len(w) - 1) : Tagged(t[1], q)

\* C8: right after highlight_vocab the spans on the text are exactly the spans
\* computed from the current text and store.
C8_OnlyCurrentSpans ==
    Ran("highlight_vocab") => tags = ScanLists(text, vocab_lists, 1, {})

\* C9: the list at (0-based) position i of the store has the color
\* palette[i mod 5].
C9_ColorByStorePosition ==
    \A k \in 1..Len(vocab_lists) :
        vocab_lists[k].color = colors[((k - 1) % Len(colors)) + 1]

\* C10: each fallback sentence of a stored batch is its grammar pattern, the
\* colon and min(3, pool size) words of the pool joined by spaces; the words
\* are pairwise distinct strings and each is a substring of the sentence.
C10_FallbackDistinctWords ==
    (Ran("generate_sentences") /\ event.outcome = "stored") =>
        \A n \in DOMAIN event.arg :
            LET r == event.arg[n]
            IN  r.kind = "fallback" =>
                  /\ generated_sentences[n] = r.grammar \o Colon \o Join(r.words, Space)
                  /\ Len(r.words) = Min(3, Len(_all_words))
                  /\ \A a \in DOMAIN r.words :
                        /\ \E p \in DOMAIN _all_words : _all_words[p] = r.words[a]
                        /\ Contains(generated_sentences[n], r.words[a])
                  /\ \A a, b \in DOMAIN r.words : a # b => r.words[a] # r.words[b]

\* the stored quiz word and tone are both unset
QuizUnset == current_quiz_word = None /\ current_quiz_tone = None

\* the stored quiz word and tone are one (word, tone) entry of the tones of a
\* list of the store
QuizFromStore == << current_quiz_word, current_quiz_tone >> \in tone_entries

\* C11: in every reachable state the stored quiz word and tone are either both
\* unset or both set to a (word, tone) entry of the tones of a list now in the
\* store; and once they are set no step leaves them both unset again.
C11_QuizPairFromStore ==
    /\ [](QuizUnset \/ QuizFromStore)
    /\ [][ ~QuizUnset => ~QuizUnset' ]_vars

C11_Witness ==
    /\ Ran("load_csv")
    /\ event.outcome = "loaded"
    /\ QuizFromStore
    /\ Len(vocab_lists) = MaxLists
    /\ quiz_feedback # << >>

====
